---- MODULE Spec2Model ----
(***************************************************************************)
(* Image_Processor.py: the batch engine (Image_Batch), its report          *)
(* (Log_File), the image handle (Image_Object) and the three registered    *)
(* actions, as a state machine.  Image_Batch.start is stepped statement by *)
(* statement; every method it calls is one atomic step.  Spec is a batch   *)
(* engine run again and again; HandleSpec is one image handle with the     *)
(* calls made on it; PathSpec is an engine with the report paths set on it;*)
(* RunSpec is run( arguments ) with the engine it builds and starts.       *)
(***************************************************************************)
EXTENDS Integers, Sequences, FiniteSets, TLC

(***************************************************************************)
(* Bounds of the model: the number of calls of Image_Batch.start, and the  *)
(* number of events from outside the engine (a setter called by the frame, *)
(* or a change of the disk by another process).                            *)
(***************************************************************************)
MaxRuns == 2
MaxEvents == 1

\* The calls made on one image handle, or of set_log_filepath on one engine;
\* the largest width and height of an image; the most pixels counted in a
\* red channel; the most bytes a re-save takes off a file.
MaxCalls == 3
MaxDim == 9
MaxPixels == 8
MaxSaved == 110

(***************************************************************************)
(* Python floats (IEEE-754 binary64) in the range the progress values      *)
(* live in.  A float is <<l2, l1, l0>>, limbs in base 2^20, denoting       *)
(* (l2 * 2^40 + l1 * 2^20 + l0) * 2^-50.  Every double in [4, 1024) is a   *)
(* multiple of 2^-50; a result is rounded to 53 significant bits, ties to  *)
(* even, the way the hardware rounds it.                                   *)
(***************************************************************************)
Limb == 2 ^ 20

F_zero == <<0, 0, 0>>

F_hundred == <<102400, 0, 0>>

\* The spacing of the doubles around a value whose top limb is l2, in units
\* of 2^-50: 1 below 8.0, 2 below 16.0, 4 below 32.0, ...
F_quantum(l2) ==
    IF l2 < 8192 THEN 1
    ELSE IF l2 < 16384 THEN 2
    ELSE IF l2 < 32768 THEN 4
    ELSE IF l2 < 65536 THEN 8
    ELSE IF l2 < 131072 THEN 16
    ELSE IF l2 < 262144 THEN 32
    ELSE IF l2 < 524288 THEN 64
    ELSE 128

\* x + num/den units (0 <= num < den), rounded to the nearest double, ties
\* to even.
F_round(x, num, den) ==
    LET q    == F_quantum(x[1])
        rem  == x[3] % q
        base == x[3] - rem
        twice == 2 * (rem * den + num)
        up   == \/ twice > q * den
                \/ twice = q * den /\ (base \div q) % 2 = 1
        n0   == IF up THEN base + q ELSE base
        c0   == n0 \div Limb
        n1   == x[2] + c0
        c1   == n1 \div Limb
    IN  <<x[1] + c1, n1 % Limb, n0 % Limb>>

\* a + b on floats.
F_add(a, b) ==
    LET s0 == a[3] + b[3]
        s1 == a[2] + b[2] + (s0 \div Limb)
        s2 == a[1] + b[1] + (s1 \div Limb)
    IN  F_round(<<s2, s1 % Limb, s0 % Limb>>, 0, 1)

\* 100.0 / float( n ), n in 1..25 (the quotient is at least 4.0).
F_div100(n) ==
    LET q2 == 102400 \div n
        r2 == 102400 % n
        q1 == (r2 * Limb) \div n
        r1 == (r2 * Limb) % n
        q0 == (r1 * Limb) \div n
        r0 == (r1 * Limb) % n
    IN  F_round(<<q2, q1, q0>>, r0, n)

\* a < b on floats.
F_less(a, b) ==
    \/ a[1] < b[1]
    \/ a[1] = b[1] /\ a[2] < b[2]
    \/ a[1] = b[1] /\ a[2] = b[2] /\ a[3] < b[3]

F_leq(a, b) == a = b \/ F_less(a, b)

(***************************************************************************)
(* The file system the engine scans.  A directory is the sequence of its   *)
(* entries in the order os.listdir returns them; a path is <<dir, name>>.  *)
(* "nodir" is a configured directory that does not exist.                  *)
(***************************************************************************)
Directories == {"d1", "d2", "nodir"}

ExistingDirs == {"d1", "d2"}

Entries(d) ==
    CASE d = "d1" -> <<"a.png", "b.PNG", "c.txt", "m_mra.png", "old.png">>
      [] d = "d2" -> <<"k.png", "j.jpg">>
      [] OTHER    -> <<>>

\* The characters of a name.
Chars(name) ==
    CASE name = "a.png"     -> <<"a", ".", "p", "n", "g">>
      [] name = "b.PNG"     -> <<"b", ".", "P", "N", "G">>
      [] name = "c.txt"     -> <<"c", ".", "t", "x", "t">>
      [] name = "m_mra.png" -> <<"m", "_", "m", "r", "a", ".", "p", "n", "g">>
      [] name = "old.png"   -> <<"o", "l", "d", ".", "p", "n", "g">>
      [] name = "k.png"     -> <<"k", ".", "p", "n", "g">>
      [] name = "j.jpg"     -> <<"j", ".", "j", "p", "g">>
      [] name = "png"       -> <<"p", "n", "g">>
      [] name = "PNG"       -> <<"P", "N", "G">>
      [] name = ".png"      -> <<".", "p", "n", "g">>
      [] name = "_mra.png"  -> <<"_", "m", "r", "a", ".", "p", "n", "g">>
      [] OTHER              -> <<>>

\* "old.png" is a sub-directory, every other entry a regular file.
IsDirEntry(path) == path[2] = "old.png"

\* What PIL finds in a file as it first lies on disk: decodable or not, size
\* in pixels, mode, the red channel's pixels strictly between 0 and 255, and
\* the bytes a re-save of the image writes.
Image(path) ==
    CASE path[2] = "a.png" ->
           [decodable |-> TRUE, w |-> 256, h |-> 128, mode |-> "RGB",
            bad |-> 0, total |-> 32768, resave |-> 3000]
      [] path[2] = "b.PNG" ->
           [decodable |-> TRUE, w |-> 300, h |-> 128, mode |-> "RGBA",
            bad |-> 0, total |-> 38400, resave |-> 3500]
      [] path[2] = "m_mra.png" ->
           [decodable |-> TRUE, w |-> 64, h |-> 64, mode |-> "RGB",
            bad |-> 1, total |-> 4096, resave |-> 950]
      [] path[2] = "j.jpg" ->
           [decodable |-> TRUE, w |-> 100, h |-> 50, mode |-> "RGB",
            bad |-> 0, total |-> 5000, resave |-> 700]
      [] OTHER ->
           [decodable |-> FALSE, w |-> 0, h |-> 0, mode |-> "",
            bad |-> 0, total |-> 0, resave |-> 0]

\* stat.S_IWRITE of a file as it first lies on disk: b.PNG is read-only.
Writable(path) == path[2] # "b.PNG"

AllPaths == UNION {{<<d, Entries(d)[i]>> : i \in 1..Len(Entries(d))} : d \in ExistingDirs}

\* The files another process deletes or creates while the tool runs.
Volatile == {<<"d1", "a.png">>}

InitialSize(path) ==
    CASE path[2] = "a.png"     -> 5000
      [] path[2] = "b.PNG"     -> 4000
      [] path[2] = "m_mra.png" -> 900
      [] path[2] = "j.jpg"     -> 800
      [] OTHER                 -> 10

\* A file on disk: whether it is there, its st_size, its S_IWRITE bit, what
\* it holds and how often the tool has written it.
InitialDisk ==
    [p \in AllPaths |->
        [exists |-> TRUE, size |-> InitialSize(p), writable |-> Writable(p),
         img |-> Image(p), writes |-> 0]]

(***************************************************************************)
(* Strings.                                                                *)
(***************************************************************************)
\* str.lower( ), on the letters the names use.
LowerChar(c) ==
    CASE c = "P" -> "p"
      [] c = "N" -> "n"
      [] c = "G" -> "g"
      [] OTHER   -> c

Lower(s) == [i \in 1..Len(s) |-> LowerChar(s[i])]

\* str.endswith( suffix )
EndsWith(s, suffix) ==
    /\ Len(suffix) <= Len(s)
    /\ SubSeq(s, Len(s) - Len(suffix) + 1, Len(s)) = suffix

\* os.path.splitext( f )[ -1 ].replace( '.', '' ): the text after the last
\* dot of the name; leading dots start no extension.
SplitExt(s) ==
    LET dots == {i \in 1..Len(s) : s[i] = "." /\ \E j \in 1..(i - 1) : s[j] # "."}
    IN  IF dots = {} THEN <<>>
        ELSE LET last == CHOOSE i \in dots : \A j \in dots : j <= i
             IN  SubSeq(s, last + 1, Len(s))

\* str( n ) of a natural number, as its decimal digits.
RECURSIVE Str(_)
Str(n) ==
    LET d == <<"0", "1", "2", "3", "4", "5", "6", "7", "8", "9">>[(n % 10) + 1]
    IN  IF n < 10 THEN <<d>> ELSE Append(Str(n \div 10), d)

\* a & b on natural numbers.
RECURSIVE BitAnd(_, _)
BitAnd(a, b) ==
    IF a = 0 \/ b = 0 THEN 0
    ELSE (a % 2) * (b % 2) + 2 * BitAnd(a \div 2, b \div 2)

(***************************************************************************)
(* The registered actions: Base_Image_Action.__subclasses__( ), in the     *)
(* order the classes are defined.  A class is named by its action_name.    *)
(***************************************************************************)
Subclasses == <<"compress_png", "check_power_of_2", "verify_pbr_values">>

ActionNames == {Subclasses[i] : i \in 1..Len(Subclasses)}

\* The can_execute class attributes as the class statements leave them.
DefaultCanExecute == [a \in ActionNames |-> a = "compress_png"]

status_msg(a) ==
    CASE a = "compress_png"     -> "Compressing "
      [] a = "check_power_of_2" -> "Checking Power of 2 on"
      [] OTHER                  -> "Verifying PBR Values on"

(***************************************************************************)
(* Image_Object and the execute methods.  An execute returns what was      *)
(* raised ("none" when nothing), the verdict, the message, and the handle  *)
(* and the disk as it leaves them.                                         *)
(***************************************************************************)
NewImageObject(path) == [filename |-> path, is_editable |-> FALSE, is_open |-> FALSE]

Outcome(raised, success, msg, obj, dk) ==
    [raised |-> raised, success |-> success, msg |-> msg, obj |-> obj, disk |-> dk]

\* Image_Object.open: PIL raises IOError on a missing or undecodable file.
CanOpen(obj, dk) == dk[obj.filename].exists /\ dk[obj.filename].img.decodable

\* update_is_editable with is_editable never put back to False.
update_is_editable_stale(obj, dk) ==
    [raised |-> IF dk[obj.filename].exists THEN "none" ELSE "OSError",
     obj |-> [obj EXCEPT !.is_editable =
                 @ \/ (dk[obj.filename].exists /\ dk[obj.filename].writable)]]

\* Image_Object._update_is_editable: is_editable is put to False, then
\* os.stat raises OSError on a missing file, then the S_IWRITE bit is read.
update_is_editable(obj, dk) ==
    IF ~dk[obj.filename].exists
    THEN [raised |-> "OSError", obj |-> [obj EXCEPT !.is_editable = FALSE]]
    ELSE [raised |-> "none",
          obj |-> [obj EXCEPT !.is_editable = dk[obj.filename].writable]]

\* Image_Object.open: [raised, obj].
ImageOpen(obj, dk) ==
    IF CanOpen(obj, dk)
    THEN [raised |-> "none", obj |-> [obj EXCEPT !.is_open = TRUE]]
    ELSE [raised |-> "IOError", obj |-> obj]

\* Image_Object.save: the writability is read anew; the image is written
\* only through an open handle to a writable file.  [raised, obj, disk].
ImageSave(obj, dk) ==
    LET u == update_is_editable(obj, dk)
    IN  IF u.raised # "none"
        THEN [raised |-> u.raised, obj |-> u.obj, disk |-> dk]
        ELSE IF u.obj.is_editable /\ u.obj.is_open
        THEN [raised |-> "none", obj |-> u.obj,
              disk |-> [dk EXCEPT ![obj.filename].size = dk[obj.filename].img.resave,
                                  ![obj.filename].writes = @ + 1]]
        ELSE [raised |-> "none", obj |-> u.obj, disk |-> dk]

\* str( int( float( file_size_diff ) / 1024.0 * 100 ) ), then the point put
\* two characters from the right.
KbStr(file_size_diff) ==
    LET kb_raw == Str((file_size_diff * 100) \div 1024)
        n      == Len(kb_raw)
    IN  SubSeq(kb_raw, 1, n - 2) \o <<".">> \o
        SubSeq(kb_raw, IF n > 2 THEN n - 1 ELSE 1, n)

\* IsPngFilename with every file taken for a PNG.
IsPngFilename_any(obj) == TRUE

\* image_obj.filename.lower( ).endswith( '.png' )
IsPngFilename(obj) == EndsWith(Lower(Chars(obj.filename[2])), Chars(".png"))

Action_Compress_PNG_execute(obj, dk) ==
    IF IsPngFilename(obj)
    THEN IF ~dk[obj.filename].exists
         THEN Outcome("OSError", FALSE, <<>>, obj, dk)
         ELSE IF ~obj.is_open /\ ~CanOpen(obj, dk)
         THEN Outcome("IOError", FALSE, <<>>, obj, dk)
         ELSE LET original_file_size == dk[obj.filename].size
                  saved          == ImageSave([obj EXCEPT !.is_open = TRUE], dk)
                  new_file_size  == saved.disk[obj.filename].size
                  file_size_diff == original_file_size - new_file_size
              IN  IF file_size_diff > 0
                  THEN Outcome("none", TRUE,
                               <<"Compression saved {0} kbs on disk", KbStr(file_size_diff)>>,
                               saved.obj, saved.disk)
                  ELSE IF file_size_diff = 0
                  THEN Outcome("none", FALSE,
                               <<"Compression did not save any memory on disk">>,
                               saved.obj, saved.disk)
                  ELSE Outcome("none", FALSE,
                               <<"Failed to complete the action for unknown reasons">>,
                               saved.obj, saved.disk)
    ELSE Outcome("none", FALSE, <<"{0} is not a PNG file", obj.filename[2]>>, obj, dk)

\* IsPow with the test against zero lost.
IsPow_zero(n) == BitAnd(n, n - 1) = 0

\* n != 0 and ( ( n & ( n - 1 ) ) == 0 )
IsPow(n) == n # 0 /\ BitAnd(n, n - 1) = 0

Action_Check_Power_Of_2_execute(obj, dk) ==
    IF ~obj.is_open /\ ~CanOpen(obj, dk)
    THEN Outcome("IOError", FALSE, <<>>, obj, dk)
    ELSE LET w == dk[obj.filename].img.w
             h == dk[obj.filename].img.h
             opened == [obj EXCEPT !.is_open = TRUE]
         IN  IF IsPow(w) /\ IsPow(h)
             THEN Outcome("none", TRUE,
                          <<"Width:{0} and Height:{1} are both a proper power of 2", w, h>>,
                          opened, dk)
             ELSE Outcome("none", FALSE,
                          <<"Either Width:{0} or Height:{1} is NOT a proper power of 2", w, h>>,
                          opened, dk)

\* r * 2^steps modulo d, for r < d < 2^16 and steps <= 75, fifteen doublings
\* at a time.
ShiftMod(r, d, steps) ==
    LET Part(k) == IF steps - k < 0 THEN 0 ELSE IF steps - k > 15 THEN 15 ELSE steps - k
        r1 == (r * 2 ^ Part(0)) % d
        r2 == (r1 * 2 ^ Part(15)) % d
        r3 == (r2 * 2 ^ Part(30)) % d
        r4 == (r3 * 2 ^ Part(45)) % d
    IN  (r4 * 2 ^ Part(60)) % d

\* Where the double float( bad ) / float( total ) * 100.0 lies when the exact
\* quotient bad * 100 / total is k + 1/2: above it (1), on it (0) or below
\* it (-1).  The quotient bad / total, in [2^-j, 2^-(j-1)), is rounded to 53
\* bits, which moves it by num / total units of 2^-(52+j), up or down; the
\* product with 100 is rounded to the doubles around k + 1/2, in
\* [2^t, 2^(t+1)), and leaves k + 1/2 only if it is moved by more than half
\* their spacing (k + 1/2 has an even mantissa, and the spacing halves below
\* 1/2).
TieSide(bad, total, k) ==
    LET j       == CHOOSE i \in 0..30 :
                      bad * 2 ^ i >= total /\ (i = 0 \/ bad * 2 ^ (i - 1) < total)
        rprev   == ShiftMod(bad % total, total, 52 + j - 1)
        lastbit == (2 * rprev) \div total
        r       == (2 * rprev) % total
        up      == 2 * r > total \/ (2 * r = total /\ lastbit = 1)
        num     == IF up THEN total - r ELSE r
        t       == IF k = 0 THEN 0 - 1
                   ELSE CHOOSE i \in 0..6 : 2 ^ i <= k /\ k < 2 ^ (i + 1)
        e       == IF ~up /\ k = 0 THEN t + j - 1 ELSE t + j
    IN  IF num = 0 THEN 0
        ELSE IF 200 * num > total * 2 ^ e THEN (IF up THEN 1 ELSE 0 - 1)
        ELSE 0

\* "{0:.0f}".format( float( bad ) / float( total ) * 100.0 ): the integer
\* nearest to the double, a double on a tie going to the even one.  The
\* double is nearer to the exact quotient than any integer or tie is to
\* another, so it rounds as the exact quotient does unless that is a tie.
PercStr(bad, total) ==
    LET fl  == (bad * 100) \div total
        rem == (bad * 100) % total
    IN  IF 2 * rem # total
        THEN Str(IF 2 * rem > total THEN fl + 1 ELSE fl)
        ELSE LET side == TieSide(bad, total, fl)
             IN  Str(IF side > 0 \/ (side = 0 /\ fl % 2 = 1) THEN fl + 1 ELSE fl)

Action_Verify_PBR_Values_execute(obj, dk) ==
    IF ~obj.is_open /\ ~CanOpen(obj, dk)
    THEN Outcome("IOError", FALSE, <<>>, obj, dk)
    ELSE LET img    == dk[obj.filename].img
             opened == [obj EXCEPT !.is_open = TRUE]
         IN  IF EndsWith(Lower(Chars(obj.filename[2])), Chars("_mra.png"))
             THEN IF img.mode \notin {"RGB", "RGBA"}
                  THEN Outcome("UnboundLocalError", FALSE, <<>>, opened, dk)
                  ELSE IF img.bad > 0
                  THEN LET perc_str == PercStr(img.bad, img.total)
                       IN  Outcome("none", FALSE,
                                   <<"{0}% of the pixels in the red channel are not valid METAL values",
                                     IF perc_str = <<"0">> THEN <<"Less than ">> \o perc_str
                                     ELSE perc_str>>,
                                   opened, dk)
                  ELSE Outcome("none", TRUE, <<"Passed all PBR validation tests">>, opened, dk)
             ELSE Outcome("none", TRUE, <<"Passed all PBR validation tests">>, opened, dk)

\* sub_class.execute( image_obj )
Execute(a, obj, dk) ==
    CASE a = "compress_png"     -> Action_Compress_PNG_execute(obj, dk)
      [] a = "check_power_of_2" -> Action_Check_Power_Of_2_execute(obj, dk)
      [] OTHER                  -> Action_Verify_PBR_Values_execute(obj, dk)

(***************************************************************************)
(* Log_File.  A dict is a function on the set of its keys.                 *)
(***************************************************************************)
EmptyDict == [k \in {} |-> <<>>]

\* Log_File.__init__
NewLog(filename) ==
    [filename |-> filename, file_results |-> EmptyDict, file_fails |-> EmptyDict,
     save_log |-> TRUE, start_time |-> 0, end_time |-> 0, completed |-> FALSE]

\* Log_File.set_filename
set_filename(lg, filename) == [lg EXCEPT !.filename = filename]

\* Log_clear with the two dicts left as they are.
Log_clear_nothing(lg) == lg

\* Log_File.clear
Log_clear(lg) == [lg EXCEPT !.file_results = EmptyDict, !.file_fails = EmptyDict]

\* add_file_fail with a file's earlier failures dropped for the new one.
add_file_fail_replace(file_fails, filename, action_name, results) ==
    IF filename \in DOMAIN file_fails
    THEN [file_fails EXCEPT ![filename] = << <<action_name, results>> >>]
    ELSE file_fails @@ (filename :> << <<action_name, results>> >>)

\* Log_File.add_file_fail
add_file_fail(file_fails, filename, action_name, results) ==
    IF filename \in DOMAIN file_fails
    THEN [file_fails EXCEPT ![filename] = Append(@, <<action_name, results>>)]
    ELSE file_fails @@ (filename :> << <<action_name, results>> >>)

\* Log_File.add_file_result
add_file_result(file_results, filename, action_name, success, results) ==
    IF filename \in DOMAIN file_results
    THEN [file_results EXCEPT ![filename] = Append(@, <<action_name, success, results>>)]
    ELSE file_results @@ (filename :> << <<action_name, success, results>> >>)

\* StrBool with every verdict written as a pass.
StrBool_pass(b) == "True"

\* str( bool )
StrBool(b) == IF b THEN "True" ELSE "False"

\* Log_save with the test of save_log lost.
Log_save_always(lg, file) ==
    [wrote |-> TRUE,
     file |-> [written |-> TRUE, failed |-> lg.file_fails,
               complete_results |-> lg.file_results]]

\* Log_File.save: whether it wrote, and the document then held by the file
\* self.filename (left as it is when save_log is off).
Log_save(lg, file) ==
    IF lg.save_log
    THEN [wrote |-> TRUE,
          file |->
            [written |-> TRUE,
             failed |-> [f \in DOMAIN lg.file_fails |->
                           [i \in 1..Len(lg.file_fails[f]) |->
                              [name |-> lg.file_fails[f][i][1],
                               report |-> lg.file_fails[f][i][2]]]],
             complete_results |-> [f \in DOMAIN lg.file_results |->
                           [i \in 1..Len(lg.file_results[f]) |->
                              [name |-> lg.file_results[f][i][1],
                               passed |-> StrBool(lg.file_results[f][i][2]),
                               report |-> lg.file_results[f][i][3]]]]]]
    ELSE [wrote |-> FALSE, file |-> file]

NoReportFile == [written |-> FALSE, failed |-> EmptyDict, complete_results |-> EmptyDict]

(***************************************************************************)
(* Image_Batch: the helpers of start.                                      *)
(***************************************************************************)
\* os.listdir( directory ): OSError on a directory that does not exist.
ListDir(directory, dk) ==
    IF directory \in ExistingDirs
    THEN LET all == Entries(directory)
             present == {i \in 1..Len(all) : dk[<<directory, all[i]>>].exists}
         IN  [raised |-> "none", names |-> all, present |-> present]
    ELSE [raised |-> "OSError", names |-> <<>>, present |-> {}]

\* The members of seq at the positions in keep, in order.
RECURSIVE Filter(_, _, _)
Filter(seq, keep, i) ==
    IF i > Len(seq) THEN <<>>
    ELSE IF i \in keep THEN <<seq[i]>> \o Filter(seq, keep, i + 1)
    ELSE Filter(seq, keep, i + 1)

\* InExtensions with the case of the letters ignored.
InExtensions_nocase(ext, exts) == \E i \in 1..Len(exts) : Lower(Chars(exts[i])) = Lower(ext)

\* ... in self.extensions: list membership, by equality of strings.
InExtensions(ext, exts) == \E i \in 1..Len(exts) : Chars(exts[i]) = ext

\* get_image_files with the os.path.exists test lost.
get_image_files_unguarded(directory, exts, dk) ==
    LET ls    == ListDir(directory, dk)
        paths == [i \in 1..Len(ls.names) |-> <<directory, ls.names[i]>>]
        keep  == {i \in ls.present :
                    /\ ~IsDirEntry(paths[i])
                    /\ InExtensions(SplitExt(Chars(ls.names[i])), exts)}
    IN  [raised |-> ls.raised, files |-> Filter(paths, keep, 1)]

\* Image_Batch.get_image_files: [raised, files].
get_image_files(directory, exts, dk) ==
    IF directory \in ExistingDirs
    THEN LET ls    == ListDir(directory, dk)
             paths == [i \in 1..Len(ls.names) |-> <<directory, ls.names[i]>>]
             keep  == {i \in ls.present :
                         /\ ~IsDirEntry(paths[i])
                         /\ InExtensions(SplitExt(Chars(ls.names[i])), exts)}
         IN  [raised |-> ls.raised, files |-> Filter(paths, keep, 1)]
    ELSE [raised |-> "none", files |-> <<>>]

\* The for loop of update_status_incr: [raised, file_count].
RECURSIVE CountFiles(_, _, _, _)
CountFiles(ds, exts, dk, i) ==
    IF i > Len(ds) THEN [raised |-> "none", file_count |-> 0]
    ELSE LET here == get_image_files(ds[i], exts, dk)
             rest == CountFiles(ds, exts, dk, i + 1)
         IN  IF here.raised # "none" THEN [raised |-> here.raised, file_count |-> 0]
             ELSE [raised |-> rest.raised, file_count |-> Len(here.files) + rest.file_count]

\* if self.actions: None and the empty list are both false.
Truthy(acts) == ~acts.none /\ Len(acts.list) > 0

InList(a, list) == \E i \in 1..Len(list) : list[i] = a

\* Selected with the can_execute test lost: every class is taken when no
\* list is given.
Selected_ignoring_flag(acts, can_exec) ==
    {a \in ActionNames :
        IF Truthy(acts) THEN InList(a, acts.list) ELSE TRUE}

\* The classes appended to the local list of get_subclass_actions_to_perform.
Selected(acts, can_exec) ==
    {a \in ActionNames :
        IF Truthy(acts) THEN InList(a, acts.list) ELSE can_exec[a]}

\* The lists that hold each member of S once.
Orderings(S) ==
    {s \in [1..Cardinality(S) -> S] : \A i, j \in 1..Cardinality(S) : s[i] = s[j] => i = j}

\* Image_Batch.get_subclass_actions_to_perform: list( set( actions ) ) holds
\* the selected classes once each, in the order the set iterates them, which
\* follows the classes' hashes (their addresses), not their registration.
get_subclass_actions_to_perform(acts, can_exec) == Orderings(Selected(acts, can_exec))

\* OnRaise as an except clause around the loops would have it: on to the
\* finalization.
OnRaise_swallowed == "end_time"

\* No try statement surrounds any part of start: an exception leaves it.
OnRaise == "aborted"

\* NextAfterResult with the test of success lost.
NextAfterResult_always(success) == "add_fail"

\* if not success: the failure is logged as well.
NextAfterResult(success) == IF success THEN "action" ELSE "add_fail"

\* NextAfterFail as a failing verdict ending the batch would have it.
NextAfterFail_break == "end_time"

\* The end of the body of the loop over the actions: on to the next one.
NextAfterFail == "action"

\* update_status_value( ) with no value: self.status_value + self.status_incr
NextStatusValue(value, incr) == F_add(value, incr)

\* What update_status_value hands to the console or to the frame.
ValueEvent(value) == [kind |-> "value", value |-> value]

\* What update_status_msg hands to the console or to the frame.
MsgEvent(msg) == [kind |-> "msg", msg |-> msg]

WriteEvent == [kind |-> "write"]

(***************************************************************************)
(* The path of the report.  A path is the sequence of its characters; None *)
(* is apart.  The default name stands in the sequence as one element.      *)
(***************************************************************************)
NoPath == [none |-> TRUE, s |-> <<>>]

PathOf(s) == [none |-> FALSE, s |-> s]

\* os.path.dirname: what precedes the last "/", its trailing "/"s dropped
\* unless it holds nothing else.
RECURSIVE RStripSlash(_)
RStripSlash(s) ==
    IF Len(s) > 0 /\ s[Len(s)] = "/" THEN RStripSlash(SubSeq(s, 1, Len(s) - 1)) ELSE s

Dirname(s) ==
    LET slashes == {i \in 1..Len(s) : s[i] = "/"}
    IN  IF slashes = {} THEN <<>>
        ELSE LET last == CHOOSE i \in slashes : \A j \in slashes : j <= i
                 head == SubSeq(s, 1, last)
             IN  IF RStripSlash(head) = <<>> THEN head ELSE RStripSlash(head)

\* os.path.exists of a directory's path: the two directories and the root
\* are there; the empty path names nothing.
OsPathExists(s) == s \in {<<"d", "1">>, <<"d", "2">>, <<"/">>}

LOG_FILE_DEFAULT_NAME == "Batch_Image_Processor_Report"

\* os.path.dirname( __file__ )
ScriptDir == <<"t">>

\* os.path.join( os.path.dirname( __file__ ), "{0}.xml".format( LOG_FILE_DEFAULT_NAME ) )
DefaultLogPath == PathOf(ScriptDir \o <<"/", LOG_FILE_DEFAULT_NAME, ".xml">>)

\* not log_filepath: None and the empty string are both false.
Falsy(path) == path.none \/ path.s = <<>>

\* Image_Batch.set_log_filepath: the engine's log_filepath, and its Log_File
\* once it has one.
set_log_filepath(path, has_log, lg) ==
    LET chosen == IF Falsy(path) \/ ~OsPathExists(Dirname(path.s))
                  THEN DefaultLogPath ELSE path
    IN  [log_filepath |-> chosen,
         log |-> IF has_log THEN set_filename(lg, chosen) ELSE lg]

\* The paths handed to the constructor and to set_log_filepath.
LogPaths ==
    {NoPath, PathOf(<<>>),
     PathOf(<<"d", "1", "/", "r">>), PathOf(<<"n", "o", "/", "r">>),
     PathOf(<<"r">>), PathOf(<<"/", "r">>), PathOf(<<"d", "2", "/", "/", "r">>)}

(***************************************************************************)
(* The configurations the presentation layer supplies.                     *)
(***************************************************************************)
DirLists ==
    {<<>>, <<"d1">>, <<"nodir", "d1">>, <<"d1", "d1">>, <<"d1", "d2">>,
     <<"d2", "nodir", "d1">>}

ExtLists == {<<>>, <<"png">>, <<"png", "PNG">>}

None == [none |-> TRUE, list |-> <<>>]

List(l) == [none |-> FALSE, list |-> l]

ActionLists ==
    {None, List(<<>>), List(<<"bogus">>),
     List(<<"check_power_of_2", "bogus", "check_power_of_2">>),
     List(<<"verify_pbr_values", "compress_png">>)}

(***************************************************************************)
(* State.                                                                  *)
(***************************************************************************)
VARIABLES
    dirs, extensions, actions, save_log,    \* Image_Batch: the configuration
    can_execute,                            \* the classes' can_execute attributes
    log,                                    \* Image_Batch.log, a Log_File
    status_value, status_incr,              \* Image_Batch: the progress
    pc, error,                              \* where start is; what it raised
    file_count,                             \* update_status_incr's local
    l_actions, l_dir, l_files, l_file,      \* start's locals: actions, the two
    l_act, image_obj, l_success, l_results, \*   loops, image_obj, success, results
    disk, report_file,                      \* the files; the report on disk
    effects,                                \* this run's notifications and writes
    processed,                              \* this run's files, as the loop took them
    at_start,                               \* the report's state as this run began
    clock, runs, ui_events, fs_changes,
    log_filepath                            \* Image_Batch.log_filepath

vars ==
    <<dirs, extensions, actions, save_log, can_execute, log, status_value,
      status_incr, pc, error, file_count, l_actions, l_dir, l_files, l_file,
      l_act, image_obj, l_success, l_results, disk, report_file, effects,
      processed, at_start, clock, runs, ui_events, fs_changes, log_filepath>>

config == <<dirs, extensions, actions, save_log, can_execute, log_filepath>>

locals == <<file_count, l_actions, l_dir, l_files, l_file, l_act, image_obj, l_success, l_results>>

env == <<clock, runs, ui_events, fs_changes>>

NoImage == NewImageObject(<<"", "">>)

Resting == {"idle", "done", "aborted"}

\* Image_Batch.__init__ with auto_start off, the classes as defined, the
\* files as they lie on disk.
Init ==
    /\ dirs \in DirLists
    /\ extensions \in ExtLists
    /\ actions \in ActionLists
    /\ save_log = TRUE
    /\ can_execute = DefaultCanExecute
    /\ log_filepath = set_log_filepath(PathOf(<<>>), FALSE, NewLog(NoPath)).log_filepath
    /\ log = NewLog(log_filepath)
    /\ status_value = F_zero
    /\ status_incr = F_zero
    /\ pc = "idle"
    /\ error = "none"
    /\ file_count = 0
    /\ l_actions = <<>>
    /\ l_dir = 0
    /\ l_files = <<>>
    /\ l_file = 0
    /\ l_act = 0
    /\ image_obj = NoImage
    /\ l_success = FALSE
    /\ l_results = <<>>
    /\ disk = InitialDisk
    /\ report_file = NoReportFile
    /\ effects = <<>>
    /\ processed = <<>>
    /\ at_start = [end_time |-> 0, completed |-> FALSE, report_file |-> NoReportFile]
    /\ clock = 1
    /\ runs = 0
    /\ ui_events = 0
    /\ fs_changes = 0

(***************************************************************************)
(* The presentation layer between two runs, and the other processes.       *)
(***************************************************************************)
UiEvent ==
    /\ pc \in Resting
    /\ ui_events + fs_changes < MaxEvents
    /\ ui_events' = ui_events + 1

\* Image_Batch.set_dirs
set_dirs ==
    /\ UiEvent
    /\ \E d \in DirLists : dirs' = d
    /\ UNCHANGED <<extensions, actions, save_log, can_execute, log, status_value,
                   status_incr, pc, error, locals, disk, report_file, effects,
                   processed, at_start, clock, runs, fs_changes, log_filepath>>

\* Image_Batch.set_extensions
set_extensions ==
    /\ UiEvent
    /\ \E e \in ExtLists : extensions' = e
    /\ UNCHANGED <<dirs, actions, save_log, can_execute, log, status_value,
                   status_incr, pc, error, locals, disk, report_file, effects,
                   processed, at_start, clock, runs, fs_changes, log_filepath>>

\* Image_Batch.set_save_log
set_save_log ==
    /\ UiEvent
    /\ \E value \in BOOLEAN :
          /\ save_log' = value
          /\ log' = [log EXCEPT !.save_log = value]
    /\ UNCHANGED <<dirs, extensions, actions, can_execute, status_value,
                   status_incr, pc, error, locals, disk, report_file, effects,
                   processed, at_start, clock, runs, fs_changes, log_filepath>>

\* Base_Image_Action.update_can_execute: a check box of the frame is set.
update_can_execute ==
    /\ UiEvent
    /\ \E a \in ActionNames, checked \in BOOLEAN :
          can_execute' = [can_execute EXCEPT ![a] = checked]
    /\ UNCHANGED <<dirs, extensions, actions, save_log, log, status_value,
                   status_incr, pc, error, locals, disk, report_file, effects,
                   processed, at_start, clock, runs, fs_changes, log_filepath>>

\* Another process deletes a file, or puts it back.  The engine reads the
\* disk only inside start, so a change made while it rests is the same change
\* made right after the next call of start; it is placed there.
ExternalChange ==
    /\ pc \notin Resting
    /\ ui_events + fs_changes < MaxEvents
    /\ fs_changes' = fs_changes + 1
    /\ \E p \in Volatile : disk' = [disk EXCEPT ![p].exists = ~@]
    /\ UNCHANGED <<config, log, status_value, status_incr, pc, error, locals,
                   report_file, effects, processed, at_start, clock, runs, ui_events>>

(***************************************************************************)
(* Image_Batch.start, statement by statement.                              *)
(***************************************************************************)
\* An exception leaves start.
Raise(e) ==
    /\ pc' = OnRaise
    /\ error' = e

\* self.log.clear( )
Start ==
    /\ pc \in Resting
    /\ runs < MaxRuns
    /\ runs' = runs + 1
    /\ log' = Log_clear(log)
    /\ pc' = "incr"
    /\ error' = "none"
    /\ effects' = <<>>
    /\ processed' = <<>>
    /\ at_start' = [end_time |-> log.end_time, completed |-> log.completed,
                    report_file |-> report_file]
    /\ file_count' = 0
    /\ l_actions' = <<>>
    /\ l_dir' = 0
    /\ l_files' = <<>>
    /\ l_file' = 0
    /\ l_act' = 0
    /\ image_obj' = NoImage
    /\ l_success' = FALSE
    /\ l_results' = <<>>
    /\ UNCHANGED <<config, status_value, status_incr, disk, report_file, clock,
                   ui_events, fs_changes>>

\* self.update_status_incr( )
UpdateStatusIncr ==
    /\ pc = "incr"
    /\ LET c == CountFiles(dirs, extensions, disk, 1)
       IN  IF c.raised # "none"
           THEN Raise(c.raised) /\ UNCHANGED <<file_count, status_incr>>
           ELSE IF c.file_count = 0
           THEN Raise("ZeroDivisionError") /\ file_count' = 0 /\ UNCHANGED status_incr
           ELSE /\ file_count' = c.file_count
                /\ status_incr' = F_div100(c.file_count)
                /\ pc' = "value0"
                /\ UNCHANGED error
    /\ UNCHANGED <<config, log, status_value, l_actions, l_dir, l_files, l_file,
                   l_act, image_obj, l_success, l_results, disk, report_file,
                   effects, processed, at_start, env>>

\* self.update_status_value( value = 0 )
EmitZero ==
    /\ pc = "value0"
    /\ status_value' = F_zero
    /\ effects' = Append(effects, ValueEvent(F_zero))
    /\ pc' = "start_time"
    /\ UNCHANGED <<config, log, status_incr, error, locals, disk, report_file,
                   processed, at_start, env>>

\* self.log.start_time = time.time( )
RecordStart ==
    /\ pc = "start_time"
    /\ log' = [log EXCEPT !.start_time = clock]
    /\ clock' = clock + 1
    /\ pc' = "resolve"
    /\ UNCHANGED <<config, status_value, status_incr, error, locals, disk,
                   report_file, effects, processed, at_start, runs, ui_events,
                   fs_changes>>

\* actions = self.get_subclass_actions_to_perform( )
Resolve ==
    /\ pc = "resolve"
    /\ \E order \in get_subclass_actions_to_perform(actions, can_execute) :
          l_actions' = order
    /\ l_dir' = 1
    /\ pc' = "dir"
    /\ UNCHANGED <<config, log, status_value, status_incr, error, file_count,
                   l_files, l_file, l_act, image_obj, l_success, l_results, disk,
                   report_file, effects, processed, at_start, env>>

\* for directory in self.dirs: image_files = self.get_image_files( directory )
NextDir ==
    /\ pc = "dir"
    /\ IF l_dir > Len(dirs)
       THEN /\ pc' = "end_time"
            /\ UNCHANGED <<error, l_files, l_file>>
       ELSE LET g == get_image_files(dirs[l_dir], extensions, disk)
            IN  IF g.raised # "none"
                THEN Raise(g.raised) /\ UNCHANGED <<l_files, l_file>>
                ELSE /\ l_files' = g.files
                     /\ l_file' = 1
                     /\ pc' = "file"
                     /\ UNCHANGED error
    /\ UNCHANGED <<config, log, status_value, status_incr, file_count, l_actions,
                   l_dir, l_act, image_obj, l_success, l_results, disk,
                   report_file, effects, processed, at_start, env>>

\* for image in image_files: self.update_status_value( )
NextFile ==
    /\ pc = "file"
    /\ IF l_file > Len(l_files)
       THEN /\ l_dir' = l_dir + 1
            /\ pc' = "dir"
            /\ UNCHANGED <<status_value, effects, processed>>
       ELSE /\ status_value' = NextStatusValue(status_value, status_incr)
            /\ effects' = Append(effects, ValueEvent(NextStatusValue(status_value, status_incr)))
            /\ processed' = Append(processed, l_files[l_file])
            /\ pc' = "construct"
            /\ UNCHANGED l_dir
    /\ UNCHANGED <<config, log, status_incr, error, file_count, l_actions, l_files,
                   l_file, l_act, image_obj, l_success, l_results, disk,
                   report_file, at_start, env>>

\* image_obj = Image_Object( image ): asserts that the file exists.
Construct ==
    /\ pc = "construct"
    /\ IF ~disk[l_files[l_file]].exists
       THEN Raise("AssertionError") /\ UNCHANGED <<image_obj, l_act>>
       ELSE /\ image_obj' = NewImageObject(l_files[l_file])
            /\ l_act' = 1
            /\ pc' = "action"
            /\ UNCHANGED error
    /\ UNCHANGED <<config, log, status_value, status_incr, file_count, l_actions,
                   l_dir, l_files, l_file, l_success, l_results, disk,
                   report_file, effects, processed, at_start, env>>

\* for sub_class in actions: the status message, then
\* success, results = sub_class.execute( image_obj )
ExecAction ==
    /\ pc = "action"
    /\ IF l_act > Len(l_actions)
       THEN /\ l_file' = l_file + 1
            /\ pc' = "file"
            /\ UNCHANGED <<error, image_obj, l_success, l_results, disk, effects>>
       ELSE LET a == l_actions[l_act]
                r == Execute(a, image_obj, disk)
            IN  /\ effects' = Append(effects, MsgEvent(<<status_msg(a), image_obj.filename[2]>>))
                /\ image_obj' = r.obj
                /\ disk' = r.disk
                /\ IF r.raised # "none"
                   THEN Raise(r.raised) /\ UNCHANGED <<l_success, l_results>>
                   ELSE /\ l_success' = r.success
                        /\ l_results' = r.msg
                        /\ pc' = "add_result"
                        /\ UNCHANGED error
                /\ UNCHANGED l_file
    /\ UNCHANGED <<config, log, status_value, status_incr, file_count, l_actions,
                   l_dir, l_files, l_act, report_file, processed, at_start, env>>

\* self.log.add_file_result( ... )
AddResult ==
    /\ pc = "add_result"
    /\ log' = [log EXCEPT !.file_results =
                  add_file_result(@, image_obj.filename, l_actions[l_act], l_success, l_results)]
    /\ pc' = NextAfterResult(l_success)
    /\ l_act' = IF NextAfterResult(l_success) = "action" THEN l_act + 1 ELSE l_act
    /\ UNCHANGED <<config, status_value, status_incr, error, file_count, l_actions,
                   l_dir, l_files, l_file, image_obj, l_success, l_results, disk,
                   report_file, effects, processed, at_start, env>>

\* self.log.add_file_fail( ... )
AddFail ==
    /\ pc = "add_fail"
    /\ log' = [log EXCEPT !.file_fails =
                  add_file_fail(@, image_obj.filename, l_actions[l_act], l_results)]
    /\ pc' = NextAfterFail
    /\ l_act' = l_act + 1
    /\ UNCHANGED <<config, status_value, status_incr, error, file_count, l_actions,
                   l_dir, l_files, l_file, image_obj, l_success, l_results, disk,
                   report_file, effects, processed, at_start, env>>

\* self.log.end_time = time.time( )
RecordEnd ==
    /\ pc = "end_time"
    /\ log' = [log EXCEPT !.end_time = clock]
    /\ clock' = clock + 1
    /\ pc' = "completed"
    /\ UNCHANGED <<config, status_value, status_incr, error, locals, disk,
                   report_file, effects, processed, at_start, runs, ui_events,
                   fs_changes>>

\* self.log.completed = True
SetCompleted ==
    /\ pc = "completed"
    /\ log' = [log EXCEPT !.completed = TRUE]
    /\ pc' = "save"
    /\ UNCHANGED <<config, status_value, status_incr, error, locals, disk,
                   report_file, effects, processed, at_start, env>>

\* self.log.save( )
Save ==
    /\ pc = "save"
    /\ report_file' = Log_save(log, report_file).file
    /\ effects' = IF Log_save(log, report_file).wrote THEN Append(effects, WriteEvent)
                  ELSE effects
    /\ pc' = "value100"
    /\ UNCHANGED <<config, log, status_value, status_incr, error, locals, disk,
                   processed, at_start, env>>

\* self.update_status_value( 100.0 )
EmitFinal ==
    /\ pc = "value100"
    /\ status_value' = F_hundred
    /\ effects' = Append(effects, ValueEvent(F_hundred))
    /\ pc' = "msg_done"
    /\ UNCHANGED <<config, log, status_incr, error, locals, disk, report_file,
                   processed, at_start, env>>

\* self.update_status_msg( "Batch Completed" )
EmitCompleted ==
    /\ pc = "msg_done"
    /\ effects' = Append(effects, MsgEvent(<<"Batch Completed">>))
    /\ pc' = "done"
    /\ UNCHANGED <<config, log, status_value, status_incr, error, locals, disk,
                   report_file, processed, at_start, env>>

Next ==
    \/ set_dirs
    \/ set_extensions
    \/ set_save_log
    \/ update_can_execute
    \/ ExternalChange
    \/ Start
    \/ UpdateStatusIncr
    \/ EmitZero
    \/ RecordStart
    \/ Resolve
    \/ NextDir
    \/ NextFile
    \/ Construct
    \/ ExecAction
    \/ AddResult
    \/ AddFail
    \/ RecordEnd
    \/ SetCompleted
    \/ Save
    \/ EmitFinal
    \/ EmitCompleted

Spec == Init /\ [][Next]_vars

(***************************************************************************)
(* One Image_Object and the execute methods called on it, outside a batch: *)
(* the handle is constructed on a file and then opened, saved or given to  *)
(* an action, while another process may change the file.  effects holds    *)
(* the calls, each with the handle and the disk it found.                  *)
(***************************************************************************)
APng == <<"d1", "a.png">>

MraPng == <<"d1", "m_mra.png">>

\* The differences between the size of a file and the size of its re-save.
SizeDiffs == ((0 - 2)..MaxSaved) \cup {1000 + 13 * i : i \in 0..MaxSaved}

\* The pixel counts of a red channel.
Totals == (1..MaxPixels) \cup {150, 200, 4096}

\* A handle's file and the disk it lies on: the files as they are, or one
\* file with another size, other dimensions or other red pixels.
Subjects ==
    {[path |-> q, disk |-> InitialDisk] : q \in AllPaths}
    \cup {[path |-> APng,
           disk |-> [InitialDisk EXCEPT ![APng].size = Image(APng).resave + d]] :
          d \in SizeDiffs}
    \cup {[path |-> APng,
           disk |-> [InitialDisk EXCEPT ![APng].img.w = w, ![APng].img.h = h,
                                        ![APng].img.total = w * h]] :
          w \in 0..MaxDim, h \in 0..MaxDim}
    \cup {[path |-> MraPng,
           disk |-> [InitialDisk EXCEPT ![MraPng].img.w = c[1], ![MraPng].img.h = 1,
                                        ![MraPng].img.total = c[1],
                                        ![MraPng].img.bad = c[2]]] :
          c \in {x \in Totals \X (0..MaxPixels) : x[2] <= x[1]}}

\* The engine, constructed and left alone.
engine ==
    <<dirs, extensions, actions, save_log, can_execute, log, status_value,
      status_incr, pc, file_count, l_actions, l_dir, l_files, l_file, l_act,
      report_file, processed, at_start, clock, runs, ui_events, fs_changes,
      log_filepath>>

EngineConstructed(path) ==
    /\ dirs = <<>>
    /\ extensions = <<>>
    /\ actions = None
    /\ save_log = TRUE
    /\ can_execute = DefaultCanExecute
    /\ log_filepath = set_log_filepath(path, FALSE, NewLog(NoPath)).log_filepath
    /\ log = NewLog(log_filepath)
    /\ status_value = F_zero
    /\ status_incr = F_zero
    /\ file_count = 0
    /\ l_actions = <<>>
    /\ l_dir = 0
    /\ l_files = <<>>
    /\ l_file = 0
    /\ l_act = 0
    /\ report_file = NoReportFile
    /\ processed = <<>>
    /\ at_start = [end_time |-> 0, completed |-> FALSE, report_file |-> NoReportFile]
    /\ clock = 1
    /\ runs = 0
    /\ ui_events = 0
    /\ fs_changes = 0

CallEvent(op, obj, dk) == [kind |-> "call", op |-> op, obj |-> obj, disk |-> dk]

\* Image_Object.__init__ on a file that exists.
HandleInit ==
    /\ EngineConstructed(NoPath)
    /\ pc = "handle"
    /\ \E subject \in Subjects :
          /\ disk = subject.disk
          /\ image_obj = NewImageObject(subject.path)
    /\ error = "none"
    /\ l_success = FALSE
    /\ l_results = <<>>
    /\ effects = <<>>

HandleCall(op) ==
    /\ pc = "handle"
    /\ Len(effects) < MaxCalls
    /\ effects' = Append(effects, CallEvent(op, image_obj, disk))
    /\ UNCHANGED engine

\* Image_Object.open
HandleOpen ==
    /\ HandleCall("open")
    /\ image_obj' = ImageOpen(image_obj, disk).obj
    /\ error' = ImageOpen(image_obj, disk).raised
    /\ UNCHANGED <<disk, l_success, l_results>>

\* Image_Object.save
HandleSave ==
    /\ HandleCall("save")
    /\ image_obj' = ImageSave(image_obj, disk).obj
    /\ disk' = ImageSave(image_obj, disk).disk
    /\ error' = ImageSave(image_obj, disk).raised
    /\ UNCHANGED <<l_success, l_results>>

\* success, results = sub_class.execute( image_obj )
HandleExecute ==
    \E a \in ActionNames :
        /\ HandleCall(a)
        /\ image_obj' = Execute(a, image_obj, disk).obj
        /\ disk' = Execute(a, image_obj, disk).disk
        /\ error' = Execute(a, image_obj, disk).raised
        /\ l_success' = Execute(a, image_obj, disk).success
        /\ l_results' = Execute(a, image_obj, disk).msg

\* Another process sets or clears the file's S_IWRITE bit.
HandleChmod ==
    /\ HandleCall("chmod")
    /\ disk' = [disk EXCEPT ![image_obj.filename].writable = ~@]
    /\ UNCHANGED <<image_obj, error, l_success, l_results>>

\* Another process deletes the file, or puts it back.
HandleUnlink ==
    /\ HandleCall("unlink")
    /\ disk' = [disk EXCEPT ![image_obj.filename].exists = ~@]
    /\ UNCHANGED <<image_obj, error, l_success, l_results>>

HandleNext ==
    \/ HandleOpen
    \/ HandleSave
    \/ HandleExecute
    \/ HandleChmod
    \/ HandleUnlink

HandleSpec == HandleInit /\ [][HandleNext]_vars

(***************************************************************************)
(* One Image_Batch and the calls of set_log_filepath on it: the first by   *)
(* __init__, before the engine has its Log_File, the others by the frame.  *)
(***************************************************************************)
PathCall(op, path) == [kind |-> "call", op |-> op, path |-> path]

PathInit ==
    /\ \E path \in LogPaths :
          /\ EngineConstructed(path)
          /\ effects = <<PathCall("__init__", path)>>
    /\ pc = "path"
    /\ disk = InitialDisk
    /\ image_obj = NoImage
    /\ error = "none"
    /\ l_success = FALSE
    /\ l_results = <<>>

\* self.batch.set_log_filepath( self.log_filepath )
PathSet ==
    /\ pc = "path"
    /\ Len(effects) < MaxCalls
    /\ \E path \in LogPaths :
          /\ log_filepath' = set_log_filepath(path, TRUE, log).log_filepath
          /\ log' = set_log_filepath(path, TRUE, log).log
          /\ effects' = Append(effects, PathCall("set_log_filepath", path))
    /\ UNCHANGED <<dirs, extensions, actions, save_log, can_execute, status_value,
                   status_incr, pc, error, locals, disk, report_file, processed,
                   at_start, env>>

PathNext == PathSet

PathSpec == PathInit /\ [][PathNext]_vars

(***************************************************************************)
(* run( arguments ): the command line.  An argument is the sequence of its *)
(* characters; the name of an action stands in it as one element.  With    *)
(* -headless the engine is built and started at once; without it the frame *)
(* is built, which builds the engine and waits for the user.               *)
(***************************************************************************)
ARG_HEADLESS == <<"-", "h", "e", "a", "d", "l", "e", "s", "s">>

ARG_DIRS == <<"-", "d", "i", "r", "s", "=">>

ARG_LOG_FILEPATH == <<"-", "l", "o", "g", "f", "i", "l", "e", "=">>

ARG_EXTENTIONS == <<"-", "e", "x", "t", "s", "=">>

ARG_ACTIONS == <<"-", "a", "c", "t", "i", "o", "n", "s", "=">>

\* str.startswith
StartsWith(s, prefix) == Len(s) >= Len(prefix) /\ SubSeq(s, 1, Len(prefix)) = prefix

\* arg[ len( prefix ):len( arg ) ]
Slice(arg, prefix) == SubSeq(arg, Len(prefix) + 1, Len(arg))

\* str.lstrip( chars ): the leading characters that occur in chars go, one
\* by one, up to the first character that does not.
RECURSIVE LStrip(_, _)
LStrip(s, chars) ==
    IF s # <<>> /\ (\E i \in 1..Len(chars) : chars[i] = s[1])
    THEN LStrip(Tail(s), chars)
    ELSE s

\* str.split( sep ): the pieces between the separators; one piece, maybe
\* empty, when there is none.
RECURSIVE Split(_, _)
Split(s, sep) ==
    LET seps == {i \in 1..Len(s) : s[i] = sep}
    IN  IF seps = {} THEN <<s>>
        ELSE LET first == CHOOSE i \in seps : \A j \in seps : i <= j
             IN  <<SubSeq(s, 1, first - 1)>> \o Split(SubSeq(s, first + 1, Len(s)), sep)

\* The string of a sequence of characters.
RECURSIVE Join(_)
Join(cs) == IF cs = <<>> THEN "" ELSE cs[1] \o Join(Tail(cs))

\* The strings of the pieces of a comma-separated list.
SplitList(s) == LET pieces == Split(s, ",") IN [i \in 1..Len(pieces) |-> Join(pieces[i])]

\* The locals of run before its loop.
RunLocals(arguments) ==
    [headless |-> \E i \in 1..Len(arguments) : arguments[i] = ARG_HEADLESS,
     dirs |-> <<>>, extensions |-> <<>>, actions |-> None, log_filepath |-> PathOf(<<>>)]

\* The body of the loop of run: four tests, each on its own.
ParseArg(arg, loc) ==
    LET l1 == IF StartsWith(arg, ARG_DIRS)
              THEN [loc EXCEPT !.dirs = SplitList(Slice(arg, ARG_DIRS))] ELSE loc
        l2 == IF StartsWith(arg, ARG_EXTENTIONS)
              THEN [l1 EXCEPT !.extensions = SplitList(Slice(arg, ARG_EXTENTIONS))] ELSE l1
        l3 == IF StartsWith(arg, ARG_ACTIONS)
              THEN [l2 EXCEPT !.actions = List(SplitList(Slice(arg, ARG_ACTIONS)))] ELSE l2
    IN  IF StartsWith(arg, ARG_LOG_FILEPATH)
        THEN [l3 EXCEPT !.log_filepath = PathOf(LStrip(arg, ARG_LOG_FILEPATH))] ELSE l3

\* for arg in arguments
RECURSIVE ParseArgs(_, _, _)
ParseArgs(arguments, i, loc) ==
    IF i > Len(arguments) THEN loc
    ELSE ParseArgs(arguments, i + 1, ParseArg(arguments[i], loc))

\* What a command line may hold of each kind of argument.
DirArgs == {<<>>, << ARG_DIRS \o <<"d", "1">> >>, << ARG_DIRS \o <<"d", "1", ",", "d", "1">> >>}

ExtArgs == {<<>>, << ARG_EXTENTIONS \o <<"p", "n", "g">> >>}

ActionArgs == {<<>>, << ARG_ACTIONS \o <<"verify_pbr_values", ",", "compress_png">> >>}

LogArgs ==
    {<<>>} \cup
    {<< ARG_LOG_FILEPATH \o path >> :
        path \in {<<>>, <<"r">>, <<"d", "1", "/", "r">>, <<"/", "r">>,
                  <<"l", "o", "g", "/", "r">>, <<"e", "/", "d", "1", "/", "r">>}}

\* The command lines.
ArgLists ==
    {h \o d \o e \o a \o l :
        h \in {<<>>, <<ARG_HEADLESS>>}, d \in DirArgs, e \in ExtArgs,
        a \in ActionArgs, l \in LogArgs}

RunCall(arguments) == [kind |-> "call", op |-> "run", arguments |-> arguments]

\* The process is started: run is called, and there is no engine yet.
RunInit ==
    /\ EngineConstructed(NoPath)
    /\ \E arguments \in ArgLists : effects = <<RunCall(arguments)>>
    /\ pc = "run"
    /\ disk = InitialDisk
    /\ image_obj = NoImage
    /\ error = "none"
    /\ l_success = FALSE
    /\ l_results = <<>>

\* run( arguments ) up to the engine it builds: Image_Batch( ... ) with
\* run's locals when headless, else the frame's Image_Batch( ... ) with the
\* log file path alone.
run ==
    /\ pc = "run"
    /\ LET loc == ParseArgs(effects[1].arguments, 1, RunLocals(effects[1].arguments))
       IN  /\ log_filepath' = set_log_filepath(loc.log_filepath, FALSE, log).log_filepath
           /\ log' = NewLog(log_filepath')
           /\ effects' = Append(effects, PathCall("__init__", loc.log_filepath))
           /\ IF loc.headless
              THEN /\ dirs' = loc.dirs
                   /\ extensions' = loc.extensions
                   /\ actions' = loc.actions
                   /\ pc' = "idle"
              ELSE /\ dirs' = <<>>
                   /\ extensions' = <<>>
                   /\ actions' = None
                   /\ pc' = "frame"
    /\ UNCHANGED <<save_log, can_execute, status_value, status_incr, error, locals,
                   disk, report_file, processed, at_start, env>>

\* if auto_start: self.start( )
auto_start ==
    /\ runs = 0
    /\ Start

RunNext ==
    \/ run
    \/ auto_start
    \/ ExternalChange
    \/ UpdateStatusIncr
    \/ EmitZero
    \/ RecordStart
    \/ Resolve
    \/ NextDir
    \/ NextFile
    \/ Construct
    \/ ExecAction
    \/ AddResult
    \/ AddFail
    \/ RecordEnd
    \/ SetCompleted
    \/ Save
    \/ EmitFinal
    \/ EmitCompleted

RunSpec == RunInit /\ [][RunNext]_vars
(***************************************************************************)
(* Properties of the engine.                                                *)
(***************************************************************************)
Range(seq) == {seq[i] : i \in 1..Len(seq)}

\* start has its list of actions and has not returned.
AfterResolve ==
    pc \in {"dir", "file", "construct", "action", "add_result", "add_fail",
            "end_time", "completed", "save", "value100", "msg_done"}

\* The progress values of this run, in the order they were emitted.
Values == SelectSeq(effects, LAMBDA e : e.kind = "value")

Wrote == WriteEvent \in Range(effects)

Completion == MsgEvent(<<"Batch Completed">>)

\* How often x occurs in seq.
Occurrences(x, seq) == Cardinality({i \in 1..Len(seq) : seq[i] = x})

\* C1: with a list of identifiers given (any list that is not None, the
\* empty one included), the actions start works with are the registered
\* actions named in the list, each once, whatever their can_execute.
C1_AllowListSelectsMembers ==
    (AfterResolve /\ ~actions.none) =>
        /\ Range(l_actions) = {a \in ActionNames : InList(a, actions.list)}
        /\ \A i, j \in 1..Len(l_actions) : l_actions[i] = l_actions[j] => i = j

\* C2: with no list given (actions is None), the actions start works with
\* are the registered actions whose can_execute is true, each once.
C2_NoListSelectsEnabled ==
    (AfterResolve /\ actions.none) =>
        /\ Range(l_actions) = {a \in ActionNames : can_execute[a]}
        /\ Len(l_actions) = Cardinality({a \in ActionNames : can_execute[a]})

C2_Witness ==
    /\ AfterResolve
    /\ actions.none
    /\ Range(l_actions) = {"compress_png", "verify_pbr_values"}

\* C3: a run that counts zero matching files raises nothing; it ends with an
\* empty report, completed set and the progress at 100.
C3_ZeroFilesCompletes ==
    (runs > 0 /\ pc # "incr" /\ file_count = 0) =>
        /\ error = "none"
        /\ pc = "done" =>
              /\ log.file_results = EmptyDict
              /\ log.file_fails = EmptyDict
              /\ log.completed
              /\ status_value = F_hundred

\* C4: in every state, those between add_file_result and add_file_fail
\* included, each (action_name, message) of a file's failures has an
\* (action_name, False, message) among that file's results.
C4_FailuresHaveResults ==
    \A f \in DOMAIN log.file_fails :
        \A i \in 1..Len(log.file_fails[f]) :
            /\ f \in DOMAIN log.file_results
            /\ <<log.file_fails[f][i][1], FALSE, log.file_fails[f][i][2]>>
                  \in Range(log.file_results[f])

C4_Witness ==
    /\ pc = "add_fail"
    /\ image_obj.filename \in DOMAIN log.file_fails
    /\ Len(log.file_results[image_obj.filename]) > Len(log.file_fails[image_obj.filename]) + 1

\* The place of an action in the registration order.
Registered(a) == CHOOSE i \in 1..Len(Subclasses) : Subclasses[i] = a

\* C5: the actions run on each file in registration order, and the file's
\* results hold their entries in that order.
C5_RegistrationOrder ==
    AfterResolve =>
        /\ \A i, j \in 1..Len(l_actions) :
              i < j => Registered(l_actions[i]) < Registered(l_actions[j])
        /\ \A f \in DOMAIN log.file_results :
              Occurrences(f, processed) = 1 =>
                  \A i, j \in 1..Len(log.file_results[f]) :
                      i < j => Registered(log.file_results[f][i][1])
                                  < Registered(log.file_results[f][j][1])

\* C6: a run over N >= 1 files with no active action emits progress values
\* that start at 0, never decrease, take one step of 100/N per file and end
\* at 100, and the report stays empty.
C6_EqualStepsToHundred ==
    (runs > 0 /\ fs_changes = 0 /\ error = "none" /\ l_actions = <<>>
        /\ pc \notin {"incr", "value0", "start_time", "resolve"}) =>
        /\ log.file_results = EmptyDict
        /\ log.file_fails = EmptyDict
        /\ Values[1].value = F_zero
        /\ \A k \in 1..(Len(Values) - 1) : F_leq(Values[k].value, Values[k + 1].value)
        /\ \A k \in 1..Len(processed) :
              Values[k + 1].value = F_add(Values[k].value, F_div100(file_count))
        /\ pc = "done" =>
              /\ Len(processed) = file_count
              /\ Len(Values) = file_count + 2
              /\ Values[Len(Values)].value = F_hundred

\* This run has recorded its end time: the clock only moves forward.
EndRecorded == log.end_time > log.start_time

Untouched ==
    /\ log.end_time = at_start.end_time
    /\ log.completed = at_start.completed
    /\ report_file = at_start.report_file
    /\ ~Wrote
    /\ Completion \notin Range(effects)
    /\ Len(Values) = IF Len(effects) = 0 THEN 0 ELSE 1 + Len(processed)

\* C8: an exception raised by an execute or by the construction of the image
\* handle leaves start: no later action or file is processed, the run
\* neither records end_time nor sets completed nor writes the report, the
\* final progress value and the completion message are not emitted, and the
\* report keeps the entries made before.
C8_RaiseAborts ==
    /\ [](error # "none" => pc = "aborted" /\ Untouched)
    /\ [][error' # "none" =>
             /\ log'.file_results = log.file_results
             /\ log'.file_fails = log.file_fails
             /\ processed' = processed
             /\ error # "none" => effects' = effects]_vars

C8_Witness ==
    /\ pc = "aborted"
    /\ error = "IOError"
    /\ log.file_results # EmptyDict
    /\ log.file_fails # EmptyDict

\* C9: a failing verdict ends nothing: a run in which nothing raises ends
\* with an entry in the results for every action on every file the loop took,
\* whatever the verdicts.
C9_FailureDoesNotAbort ==
    (pc = "done" /\ error = "none") =>
        /\ fs_changes = 0 => Len(processed) = file_count
        /\ \A f \in Range(processed) :
              \A a \in Range(l_actions) :
                  /\ f \in DOMAIN log.file_results
                  /\ Occurrences(a, [i \in 1..Len(log.file_results[f]) |->
                                        log.file_results[f][i][1]])
                        = Occurrences(f, processed)

C9_Witness ==
    /\ pc = "done"
    /\ Len(processed) > 1
    /\ Len(l_actions) > 1
    /\ processed[1] \in DOMAIN log.file_fails

\* The matching files of the directories of ds that exist, in order.
RECURSIVE ExistingFiles(_, _, _, _)
ExistingFiles(ds, exts, dk, i) ==
    IF i > Len(ds) THEN <<>>
    ELSE (IF ds[i] \in ExistingDirs THEN get_image_files(ds[i], exts, dk).files ELSE <<>>)
            \o ExistingFiles(ds, exts, dk, i + 1)

\* C10: a configured directory that does not exist gives the count and the
\* loop no file and raises nothing; the files of the other directories are
\* counted and taken, in the configured order.
C10_MissingDirSkipped ==
    /\ get_image_files("nodir", extensions, disk) = [raised |-> "none", files |-> <<>>]
    /\ fs_changes = 0 =>
          /\ error \in {"none", "ZeroDivisionError", "IOError"}
          /\ pc \in {"value0", "start_time", "resolve"} =>
                file_count = Len(ExistingFiles(dirs, extensions, disk, 1))
          /\ pc = "end_time" =>
                processed = ExistingFiles(dirs, extensions, disk, 1)

C10_Witness ==
    /\ pc = "end_time"
    /\ fs_changes = 0
    /\ Len(dirs) = 2
    /\ dirs[1] = "nodir"
    /\ Len(processed) > 1
\* The entries of results with a failing verdict.
Failing(results) == SelectSeq(results, LAMBDA r : ~r[2])

\* C11: the report holds entries of the latest call of start only: it is
\* empty once start has cleared it, and afterwards a file has entries only if
\* this run took it, no more than this run's actions can have given it, and
\* no more failures than failing entries; so also after a change of the
\* configuration or an aborted run.
C11_ReportOfLatestRunOnly ==
    runs > 0 =>
        /\ pc \in {"incr", "value0", "start_time", "resolve"} =>
              log.file_results = EmptyDict /\ log.file_fails = EmptyDict
        /\ \A f \in DOMAIN log.file_results :
              /\ f \in Range(processed)
              /\ Len(log.file_results[f]) <= Occurrences(f, processed) * Len(l_actions)
        /\ \A f \in DOMAIN log.file_fails :
              /\ f \in DOMAIN log.file_results
              /\ Len(log.file_fails[f]) <= Len(Failing(log.file_results[f]))

C11_Witness ==
    /\ runs = 2
    /\ pc = "done"
    /\ log.file_results # EmptyDict
    /\ \E f \in DOMAIN at_start.report_file.complete_results :
          f \notin DOMAIN log.file_results

(***************************************************************************)
(* Properties of the image handle and of the actions.                      *)
(***************************************************************************)
\* The latest call, with the handle and the disk it found.
Last == effects[Len(effects)]

Called(op) == pc = "handle" /\ Len(effects) > 0 /\ Last.op = op

\* The file of the handle.
File == image_obj.filename

HasPngSuffix(cs) ==
    /\ Len(cs) >= 4
    /\ cs[Len(cs) - 3] = "."
    /\ cs[Len(cs) - 2] \in {"p", "P"}
    /\ cs[Len(cs) - 1] \in {"n", "N"}
    /\ cs[Len(cs)] \in {"g", "G"}

\* C13: on a file whose name does not end in ".png" (in any case of the
\* letters) the compress action returns (False, "<basename> is not a PNG
\* file") and leaves the handle, is_open included, and the disk as they were;
\* on a name that does end so it never returns that message.
C13_NonPngRefusedUntouched ==
    Called("compress_png") =>
        IF HasPngSuffix(Chars(File[2]))
        THEN error = "none" => l_results[1] # "{0} is not a PNG file"
        ELSE /\ error = "none"
             /\ ~l_success
             /\ l_results = <<"{0} is not a PNG file", File[2]>>
             /\ image_obj = Last.obj
             /\ disk = Last.disk

C13_Witness ==
    /\ Called("compress_png")
    /\ File[2] = "j.jpg"
    /\ Last.obj.is_open
    /\ image_obj.is_open
    /\ ~l_success

\* C14: a PNG file that a re-save leaves larger than it was gets the verdict
\* and the message of a file whose size the re-save did not change.
C14_LargerReportedAsEqual ==
    (/\ Called("compress_png")
     /\ error = "none"
     /\ HasPngSuffix(Chars(File[2]))
     /\ disk[File].size > Last.disk[File].size) =>
        /\ ~l_success
        /\ l_results = <<"Compression did not save any memory on disk">>

\* The number a string of decimal digits denotes; the empty string gives 0.
RECURSIVE DigitsValue(_)
DigitsValue(ds) ==
    IF Len(ds) = 0 THEN 0
    ELSE 10 * DigitsValue(SubSeq(ds, 1, Len(ds) - 1))
         + (CHOOSE v \in 0..9 : Str(v) = <<ds[Len(ds)]>>)

\* A decimal figure with at most two digits after its point, in hundredths.
Hundredths(figure) ==
    LET dot  == CHOOSE i \in 1..Len(figure) : figure[i] = "."
        frac == SubSeq(figure, dot + 1, Len(figure))
    IN  100 * DigitsValue(SubSeq(figure, 1, dot - 1))
        + (IF Len(frac) = 1 THEN 10 * DigitsValue(frac) ELSE DigitsValue(frac))

\* C15: the figure in the compress action's success message, read as a
\* decimal number, is the bytes saved over 1024 cut to two decimals:
\* floor(d * 100 / 1024) / 100, for every d > 0.
C15_KilobytesTruncated ==
    (Called("compress_png") /\ error = "none" /\ l_success) =>
        Hundredths(l_results[2])
            = ((Last.disk[File].size - disk[File].size) * 100) \div 1024

\* n is one of 1, 2, 4, 8, ...
PowerOfTwo(n) == \E k \in 0..30 : n = 2 ^ k

C17_PercentageFloored ==
    (/\ Called("verify_pbr_values")
     /\ error = "none"
     /\ EndsWith(Lower(Chars(File[2])), Chars("_mra.png"))
     /\ disk[File].img.bad > 0) =>
        LET floored == (disk[File].img.bad * 100) \div disk[File].img.total
        IN  /\ ~l_success
            /\ l_results =
                  <<"{0}% of the pixels in the red channel are not valid METAL values",
                    IF floored = 0 THEN <<"Less than ">> \o Str(floored)
                    ELSE Str(floored)>>

(***************************************************************************)
(* Properties of the selection of files, of the written report and of the  *)
(* report's path.                                                          *)
(***************************************************************************)
\* The text after the last dot of a name; nothing when it has no dot.
AfterLastDot(cs) ==
    LET dots == {i \in 1..Len(cs) : cs[i] = "."}
    IN  IF dots = {} THEN <<>>
        ELSE SubSeq(cs, (CHOOSE i \in dots : \A j \in dots : j <= i) + 1, Len(cs))

\* The regular files of a directory whose extension is, letter for letter,
\* one of exts.
Matching(directory, exts, dk) ==
    {q \in AllPaths :
        /\ q[1] = directory
        /\ dk[q].exists
        /\ q[2] # "old.png"
        /\ \E i \in 1..Len(exts) : Chars(exts[i]) = AfterLastDot(Chars(q[2]))}

RECURSIVE MatchingCount(_, _, _, _)
MatchingCount(ds, exts, dk, i) ==
    IF i > Len(ds) THEN 0
    ELSE Cardinality(Matching(ds[i], exts, dk)) + MatchingCount(ds, exts, dk, i + 1)

ParseBool(text) == text = "True"

\* The dicts read back from the two sections of a written report.
ParsedResults(doc) ==
    [f \in DOMAIN doc.complete_results |->
        [i \in 1..Len(doc.complete_results[f]) |->
            <<doc.complete_results[f][i].name,
              ParseBool(doc.complete_results[f][i].passed),
              doc.complete_results[f][i].report>>]]

ParsedFails(doc) ==
    [f \in DOMAIN doc.failed |->
        [i \in 1..Len(doc.failed[f]) |->
            <<doc.failed[f][i].name, doc.failed[f][i].report>>]]

\* The failing entries of a file's results, as (name, message).
FailedOf(results) ==
    LET failing == Failing(results)
    IN  [i \in 1..Len(failing) |-> <<failing[i][1], failing[i][3]>>]

ParentDirExists(s) == IF Dirname(s) = <<>> THEN TRUE ELSE OsPathExists(Dirname(s))

\* C20: after __init__ and after every set_log_filepath the engine's
\* log_filepath is the path supplied when that is not empty and its parent
\* directory exists, and the default path otherwise; the Log_File's filename
\* is equal to it.
C20_SuppliedPathKept ==
    pc = "path" =>
        /\ log.filename = log_filepath
        /\ log_filepath =
              IF ~Last.path.none /\ Last.path.s # <<>> /\ ParentDirExists(Last.path.s)
              THEN Last.path
              ELSE DefaultLogPath

(***************************************************************************)
(* Properties of the progress and of the report over whole runs.           *)
(***************************************************************************)
\* The steps of progress this run has emitted: its values but the first, 0,
\* and the closing 100.
Steps == Len(Values) - 1 - (IF pc \in {"msg_done", "done"} THEN 1 ELSE 0)

\* The file the loop is at still has an action to run or a result to record.
Pending ==
    \/ pc = "construct" /\ l_actions # <<>>
    \/ pc = "action" /\ l_act <= Len(l_actions)
    \/ pc \in {"add_result", "add_fail"}

\* C21: the step of progress of a file is emitted only after every active
\* action has run on the file and its results are in the report: while the
\* file the loop is at is pending, the steps emitted are those of the files
\* before it.
C21_ProgressAfterProcessing ==
    (AfterResolve /\ Pending) => Steps <= Len(processed) - 1

\* The wording of a message: the message without the numbers filled in.
Wording(msg) == msg[1]

\* What the power-of-two action says of the handle's file, were it w by h.
MessageFor(w, h) ==
    Action_Check_Power_Of_2_execute(
        Last.obj, [Last.disk EXCEPT ![File].img.w = w, ![File].img.h = h]).msg

\* C22: a failing power-of-two check reports the width and the height, and
\* its wording tells which of the two failed: the wording for a width that
\* alone fails is not the wording for any image whose height fails.
C22_MessageNamesFailingDimension ==
    (Called("check_power_of_2") /\ error = "none" /\ ~l_success) =>
        /\ l_results[2] = disk[File].img.w
        /\ l_results[3] = disk[File].img.h
        /\ (~PowerOfTwo(disk[File].img.w) /\ PowerOfTwo(disk[File].img.h)) =>
              \A w \in 0..MaxDim, h \in 0..MaxDim :
                  ~PowerOfTwo(h) => Wording(MessageFor(w, h)) # Wording(l_results)

\* start has left its loops and has raised nothing.
LoopsEnded == pc \in {"end_time", "completed", "save", "value100", "msg_done", "done"}

\* C23: once the loops of a run have ended with nothing raised, a file's
\* failures are its results with a failing verdict, as (name, message), in
\* the order and the number they have among the results, and the files with
\* failures are the files with a failing result.
C23_FailuresAreFailingResults ==
    (runs > 0 /\ LoopsEnded) =>
        /\ DOMAIN log.file_fails =
              {f \in DOMAIN log.file_results : Failing(log.file_results[f]) # <<>>}
        /\ \A f \in DOMAIN log.file_fails :
              LET failing == Failing(log.file_results[f])
              IN  /\ Len(log.file_fails[f]) = Len(failing)
                  /\ \A i \in 1..Len(failing) :
                        /\ log.file_fails[f][i][1] = failing[i][1]
                        /\ log.file_fails[f][i][2] = failing[i][3]

C23_Witness ==
    /\ pc = "done"
    /\ \E f \in DOMAIN log.file_fails :
          /\ Len(log.file_fails[f]) = 2
          /\ Len(log.file_results[f]) > 2
    /\ DOMAIN log.file_results # DOMAIN log.file_fails

\* start has cleared the report and has not yet set completed.
BeforeFinalization ==
    pc \in {"incr", "value0", "start_time", "resolve", "dir", "file", "construct",
            "action", "add_result", "add_fail", "end_time", "completed"}

\* C25: from the clearing of the report by start up to the finalization the
\* report's completed flag is false, in a first run and in every later one.
C25_NotCompletedWhileRunning == BeforeFinalization => ~log.completed

\* A file's list of results in the report; no list is an empty one.
ResultsOf(f) == IF f \in DOMAIN log.file_results THEN log.file_results[f] ELSE <<>>

\* C26: once the loops of a run have ended with nothing raised, every file
\* the run took has one result for each active action and no more, also
\* when a directory is listed more than once.
C26_OneResultPerAction ==
    (runs > 0 /\ LoopsEnded) =>
        \A f \in Range(processed) : Len(ResultsOf(f)) = Len(l_actions)

\* C27: every value of progress a run emits lies between 0 and 100, and no
\* value is smaller than the one emitted before it, whether or not files
\* come or go between the count and the listing of a directory.
C27_ProgressWithinBoundsAndRising ==
    /\ \A k \in 1..Len(Values) :
          /\ F_leq(F_zero, Values[k].value)
          /\ F_leq(Values[k].value, F_hundred)
    /\ \A k \in 1..(Len(Values) - 1) : F_leq(Values[k].value, Values[k + 1].value)

(***************************************************************************)
(* Properties of the command line.                                         *)
(***************************************************************************)
\* The command line's last argument that begins with "-logfile=".
LogArg(arguments) ==
    LET logs == {i \in 1..Len(arguments) : StartsWith(arguments[i], ARG_LOG_FILEPATH)}
    IN  arguments[CHOOSE i \in logs : \A j \in logs : j <= i]

\* C24: the log file path run hands to the engine is the text that follows
\* "-logfile=" in the argument, whole, whatever characters it begins with.
C24_LogPathAfterPrefix ==
    (/\ Len(effects) = 2
     /\ effects[1].op = "run"
     /\ \E i \in 1..Len(effects[1].arguments) :
           StartsWith(effects[1].arguments[i], ARG_LOG_FILEPATH)) =>
        effects[2].path = PathOf(Slice(LogArg(effects[1].arguments), ARG_LOG_FILEPATH))

====
